---- MODULE Spec2Model ----
(***************************************************************************)
(* Link shortener: the links table with its uniqueness constraint, the     *)
(* create-link endpoint with the short-code allocator behind it, lookup by *)
(* short code and delete by id.  Several requests run concurrently against *)
(* the one shared store; a request is atomic between two awaits, so one    *)
(* action is "everything up to the next store call" or "one store call     *)
(* and the handling of its answer".                                        *)
(***************************************************************************)
EXTENDS Integers, Sequences, FiniteSets, TLC

(* ------------------------------------------------------------------ *)
(* Bounds of the model                                                 *)
(* ------------------------------------------------------------------ *)
\* total number of create-link requests over a run
MaxCalls == 2
\* redirects a browser follows for one page request before it gives up
MaxRedirects == 3
\* calls of the utility functions over a run
MaxProbes == 2

(* ------------------------------------------------------------------ *)
(* Program constants                                                   *)
(* ------------------------------------------------------------------ *)
\* varchar('short_code', { length: 20 })
ShortCodeMaxLen == 20
\* retry budget of the allocator: insert attempts per allocation, the first included
MaxAttempts == 5
\* length of an auto-generated code (reference design: at least 8)
GenCodeLen == 8
\* generateShortCode(6)
TestCodeLen == 6

(* ------------------------------------------------------------------ *)
(* Values                                                              *)
(* ------------------------------------------------------------------ *)
\* Clerk user ids; "" is the userId of auth() when nobody is signed in
NoUser == ""
Users == {"user_1", "user_2"}

\* Concurrent requests come from browser sessions, one per user, each with at
\* most one create-link request in flight; a session may be signed out.
Procs == Users

Letters ==
  {"a","b","c","d","e","f","g","h","i","j","k","l","m",
   "n","o","p","q","r","s","t","u","v","w","x","y","z",
   "A","B","C","D","E","F","G","H","I","J","K","L","M",
   "N","O","P","Q","R","S","T","U","V","W","X","Y","Z"}
Digits == {"0","1","2","3","4","5","6","7","8","9"}
\* the alphabet generateShortCode draws from: /^[a-zA-Z0-9]+$/
Alphanumeric == Letters \cup Digits
\* the character class of a custom code: letters, digits, hyphen
CustomCodeChars == Alphanumeric \cup {"-"}

\* A URL string, kept as the two parts the URL parser tells apart: the
\* scheme before the first ":" ("" when there is none) and what follows.
HttpsExample == [scheme |-> "https", rest |-> "//example.com"]
HttpsTest == [scheme |-> "https", rest |-> "//test.com"]
NotAUrl == [scheme |-> "", rest |-> "not-a-url"]
EmptyUrl == [scheme |-> "", rest |-> ""]
Urls == {HttpsExample, HttpsTest, NotAUrl}
\* further strings the predicate is called with
HttpExamplePath == [scheme |-> "http", rest |-> "//example.com/path"]
FtpExample == [scheme |-> "ftp", rest |-> "//example.com"]
HttpsNoHost == [scheme |-> "https", rest |-> "//"]
MailtoExample == [scheme |-> "mailto", rest |-> "user@example.com"]
ProbeUrls == Urls \cup {EmptyUrl, HttpExamplePath, FtpExample, HttpsNoHost, MailtoExample}

\* A short code is a string, kept as the sequence of its characters.
\* The absent optional customCode field:
NoCode == <<>>
Repeat(ch, n) == [i \in 1..n |-> ch]
MyLink == <<"m","y","-","l","i","n","k">>
BadCharCode == <<"m","y","_","l","i","n","k">>
TooLongCode == Repeat("a", ShortCodeMaxLen + 1)
\* the characters the model lets the generator draw for the last position
GenDraws == {"1", "2"}
\* the lengths generateShortCode is asked for: the one of the test, the default
GenLengths == {TestCodeLen, GenCodeLen}

\* a generator over the URL-safe alphabet with hyphen and underscore
generateShortCodeUrlSafe(length, d) == [k \in 1..length |-> IF k = length THEN d ELSE "_"]

\* generateShortCode(length): length characters drawn from the alphanumeric
\* alphabet; d is the random draw, which the model leaves to the last position
generateShortCode(length, d) == [k \in 1..length |-> IF k = length THEN d ELSE "x"]

\* a code generateShortCode() can return: GenCodeLen alphanumeric characters
GenCode(d) == generateShortCode(GenCodeLen, d)
\* the codes the generator draws from in the model
GenPool == {GenCode("1"), GenCode("2")}
\* custom codes users submit: a fresh one, one that the generator can also
\* draw, one with a character outside the class, one over the length bound
CustomCodes == {MyLink, GenCode("1"), BadCharCode, TooLongCode}

(* ------------------------------------------------------------------ *)
(* State                                                               *)
(* ------------------------------------------------------------------ *)
VARIABLES
  store,       \* the rows of table links
  nextId,      \* ids handed out so far (nanoid() never repeats one)
  calls,       \* create-link requests started so far
  alloc,       \* per request slot: the request in flight
  column,      \* the type column short_code was created with
  middleware,  \* whether middleware.ts is deployed
  nav,         \* per browser session: who is signed in and the page request in flight
  probe        \* the calls of the utility functions made so far, with their results

\* what the link endpoints read and write
allocVars == <<store, nextId, calls, alloc>>
\* what page requests read and write
navVars == <<middleware, nav>>
vars == <<store, nextId, calls, alloc, column, middleware, nav, probe>>

(* ------------------------------------------------------------------ *)
(* The store: table links                                              *)
(* ------------------------------------------------------------------ *)
\* A row of table links is a record with the columns id, userId, url,
\* shortCode, createdAt and updatedAt.
ShortCodes(rows) == {r.shortCode : r \in rows}

\* the table without its uniqueness constraint
UniqueViolationDropped(rows, row) == FALSE

\* the constraint declared on (user_id, short_code) instead of short_code alone
UniqueViolationPerUser(rows, row) ==
  \E r \in rows : r.shortCode = row.shortCode /\ r.userId = row.userId

\* CONSTRAINT links_short_code_unique UNIQUE(short_code): would row break it?
UniqueViolation(rows, row) == \E r \in rows : r.shortCode = row.shortCode

\* schema.ts declares short_code varchar(20), the migration creates it as text
ColumnTypes == {"varchar", "text"}

\* varchar(20): a longer value is refused by the column type; text takes any
TooLongForColumn(row) == column = "varchar" /\ Len(row.shortCode) > ShortCodeMaxLen

\* What one INSERT answers: "ok", SQLSTATE "23505" (unique violation) or
\* "22001" (value too long for the column type).
InsertAnswer(rows, row) ==
  IF TooLongForColumn(row) THEN "22001"
  ELSE IF UniqueViolation(rows, row) THEN "23505"
  ELSE "ok"

\* the row is written although the constraint is violated
InsertRowAlways(rows, row) ==
  IF TooLongForColumn(row) THEN rows ELSE rows \cup {row}

\* the insert written as an upsert: .onConflictDoUpdate({ target: links.shortCode })
InsertRowUpsert(rows, row) ==
  IF TooLongForColumn(row) THEN rows
  ELSE {r \in rows : r.shortCode # row.shortCode} \cup {row}

\* db.insert(links).values(row): the table after the statement
InsertRow(rows, row) ==
  IF InsertAnswer(rows, row) = "ok" THEN rows \cup {row} ELSE rows

\* db.delete(links).where(eq(links.id, id))
DeleteWhereId(rows, id) == {r \in rows : r.id # id}

\* the query without its where clause
FindFirstNoWhere(rows, code) == rows

\* db.query.links.findFirst({ where: eq(links.shortCode, code) }): the set
\* of rows the query can return (empty: undefined)
FindByShortCode(rows, code) == {r \in rows : r.shortCode = code}

\* orderBy: (links, { desc }) => [desc(links.createdAt)]
RECURSIVE OrderByCreatedAtDesc(_)
OrderByCreatedAtDesc(rows) ==
  IF rows = {} THEN <<>>
  ELSE LET first == CHOOSE r \in rows : \A o \in rows : o.createdAt <= r.createdAt
       IN <<first>> \o OrderByCreatedAtDesc(rows \ {first})

\* db.query.links.findMany({ where: eq(links.userId, userId), orderBy: ... }):
\* the links the dashboard of userId lists
UserLinks(rows, userId) == OrderByCreatedAtDesc({r \in rows : r.userId = userId})

(* ------------------------------------------------------------------ *)
(* Validation                                                          *)
(* ------------------------------------------------------------------ *)
\* schemes for which the URL parser demands a host
SpecialSchemes == {"http", "https", "ftp", "ws", "wss"}

\* new URL(url) does not throw: there is a scheme, and a special scheme
\* is followed by a non-empty host
isValidUrl(url) ==
  /\ url.scheme # ""
  /\ url.scheme \in SpecialSchemes => url.rest \notin {"", "//", "/"}

\* the custom-code check without the length bound
isValidCustomCodeAnyLength(code) ==
  \A i \in 1..Len(code) : code[i] \in CustomCodeChars

\* a supplied custom code: only letters, digits and hyphen, within the length bound
isValidCustomCode(code) ==
  /\ Len(code) <= ShortCodeMaxLen
  /\ \A i \in 1..Len(code) : code[i] \in CustomCodeChars

\* the endpoint without its url check
ValidateUrlSkipped(url) == "ok"

\* if (!url || !isValidUrl(url)) return { error: 'Invalid URL' }
ValidateUrl(url) ==
  IF url = EmptyUrl \/ ~isValidUrl(url) THEN "InvalidURL" ELSE "ok"

\* step 2 of allocate: a supplied custom code is checked, an absent one is not
ValidateCustomCode(customCode) ==
  IF customCode # NoCode /\ ~isValidCustomCode(customCode) THEN "InvalidCustomCode" ELSE "ok"

\* the two checks in the other order
ValidateCustomCodeFirst(url, customCode) ==
  IF ValidateCustomCode(customCode) # "ok" THEN ValidateCustomCode(customCode) ELSE ValidateUrl(url)

\* steps 1 and 2 of allocate, in this order: the error kind, or "ok"
Validate(url, customCode) ==
  IF ValidateUrl(url) # "ok" THEN ValidateUrl(url) ELSE ValidateCustomCode(customCode)

\* the action without its guard
AuthorizedAlways(userId) == TRUE

\* const { userId } = await auth(); if (!userId) throw new Error('Unauthorized')
Authorized(userId) == userId # NoUser

(* ------------------------------------------------------------------ *)
(* Pages                                                               *)
(* ------------------------------------------------------------------ *)
\* A path is the sequence of its segments: "/" is <<>>.
HomePath == <<>>
DashboardPath == <<"dashboard">>
DashboardSubPath == <<"dashboard", "settings">>
SignInPath == <<"sign-in">>
SignUpPath == <<"sign-up">>
Paths == {HomePath, DashboardPath, DashboardSubPath, SignInPath, SignUpPath}

\* NEXT_PUBLIC_CLERK_SIGN_IN_URL, NEXT_PUBLIC_CLERK_AFTER_SIGN_IN_URL, afterSignOutUrl
SignInUrl == SignInPath
AfterSignInUrl == DashboardPath
AfterSignOutUrl == HomePath

\* what the server answers to a page request
Redirect(to) == [kind |-> "redirect", to |-> to]
Render(page) == [kind |-> "render", page |-> page]

\* the homepage without its redirect
HomeNoRedirect(userId) == Render("home")

\* app/page.tsx: if (userId) redirect('/dashboard'), else the homepage content
Home(userId) == IF userId # NoUser THEN Redirect(DashboardPath) ELSE Render("home")

\* app/dashboard/layout.tsx: if (!userId) redirect('/'), else the children
DashboardLayout(userId, children) ==
  IF userId = NoUser THEN Redirect(HomePath) ELSE Render(children)

\* createRouteMatcher(['/dashboard(.*)', '/api/links(.*)'])
isProtectedRoute(path) ==
  \/ Len(path) >= 1 /\ path[1] = "dashboard"
  \/ Len(path) >= 2 /\ path[1] = "api" /\ path[2] = "links"

\* middleware.ts: if (isProtectedRoute(req)) auth().protect(); protect() sends
\* a signed-out page request to the sign-in URL, any other request passes
Middleware(path, userId) ==
  IF isProtectedRoute(path) /\ userId = NoUser THEN Redirect(SignInUrl) ELSE Render("next")

\* the app directory: the page (under its layout) that serves a path
Page(path, userId) ==
  IF path = HomePath THEN Home(userId)
  ELSE IF path = SignInPath THEN Render("sign-in")
  ELSE IF path = SignUpPath THEN Render("sign-up")
  ELSE IF path = DashboardPath THEN DashboardLayout(userId, "dashboard")
  ELSE IF Len(path) >= 1 /\ path[1] = "dashboard" THEN DashboardLayout(userId, "dashboard-sub")
  ELSE Render("not-found")

\* one page request: the middleware, when deployed, runs before the page
Respond(mw, path, userId) ==
  IF mw /\ Middleware(path, userId).kind = "redirect"
  THEN Middleware(path, userId) ELSE Page(path, userId)

\* A browser session: the user signed in (NoUser: nobody), pc ("idle",
\* "request": a page request is on its way, "page": a page is shown), the
\* path of the request, the path the user asked for before any redirect,
\* the redirects followed since, and the page shown.
NavIdle == [userId |-> NoUser, pc |-> "idle", path |-> HomePath, asked |-> HomePath,
            hops |-> 0, page |-> "none"]

(* ------------------------------------------------------------------ *)
(* Requests                                                            *)
(* ------------------------------------------------------------------ *)
ErrorKinds == {"InvalidURL", "InvalidCustomCode", "CodeAlreadyExists",
               "AllocationExhausted", "StoreUnavailable"}

\* A request in flight: pc ("idle", "insert": waiting for the store, "done":
\* answered), the inputs url, userId and customCode, the candidate code of the
\* next insert attempt, the number of insert attempts answered, the result
\* and the Link returned with it.  Two fields record history for the
\* properties: freeAtStart, whether no row held the custom code when the
\* request arrived, and clean, whether no row holding the request's code was
\* deleted since.
\* a slot with no request in it
Idle == [pc |-> "idle", url |-> EmptyUrl, userId |-> NoUser, customCode |-> NoCode,
         cand |-> NoCode, attempts |-> 0, result |-> "none",
         link |-> {}, freeAtStart |-> FALSE, clean |-> TRUE]

\* the table as schema.ts declares it, empty; no middleware.ts; nobody signed in
Init ==
  /\ store = {}
  /\ nextId = 1
  /\ calls = 0
  /\ alloc = [p \in Procs |-> Idle]
  /\ column = "varchar"
  /\ middleware = FALSE
  /\ nav = [p \in Procs |-> NavIdle]
  /\ probe = <<>>

\* the row built with a code generated anew instead of the candidate
NewLinkOtherCode(a, id) ==
  [id |-> id, userId |-> a.userId, url |-> a.url, shortCode |-> GenCode("1"),
   createdAt |-> id, updatedAt |-> id]

\* the row an allocation inserts: id from nanoid(), both timestamps now, the
\* clock being the number of rows written so far
NewLink(a, id) ==
  [id |-> id, userId |-> a.userId, url |-> a.url, shortCode |-> a.cand,
   createdAt |-> id, updatedAt |-> id]

\* The endpoint up to its first store call: auth(), then validation, then
\* the first candidate (the custom code, or a generated one).
Begin(url, userId, customCode, cand, rows) ==
  LET in == [Idle EXCEPT !.url = url, !.userId = userId, !.customCode = customCode,
                         !.freeAtStart = customCode \notin ShortCodes(rows)]
  IN IF ~Authorized(userId) THEN [Idle EXCEPT !.pc = "done", !.result = "Unauthorized"]
     ELSE IF Validate(url, customCode) # "ok"
          THEN [in EXCEPT !.pc = "done", !.result = Validate(url, customCode)]
     ELSE IF customCode # NoCode
          THEN [in EXCEPT !.pc = "insert", !.cand = customCode]
     ELSE [in EXCEPT !.pc = "insert", !.cand = cand]

CreateLink(p) ==
  /\ alloc[p].pc = "idle"
  /\ calls < MaxCalls
  /\ \E url \in Urls, userId \in {p, NoUser},
        customCode \in CustomCodes \cup {NoCode}, cand \in GenPool :
       alloc' = [alloc EXCEPT ![p] = Begin(url, userId, customCode, cand, store)]
  /\ calls' = calls + 1
  /\ UNCHANGED <<store, nextId, column, navVars, probe>>

\* the retry loop without its exit: when the budget is used up the count
\* starts again and the allocator keeps trying
InterpretUnbounded(a, answer, row, next) ==
  LET b == [a EXCEPT !.attempts = a.attempts + 1]
  IN IF answer = "ok"
       THEN [b EXCEPT !.pc = "done", !.result = "Success", !.link = {row}]
     ELSE IF answer # "23505"
       THEN [b EXCEPT !.pc = "done", !.result = "StoreUnavailable"]
     ELSE IF a.customCode # NoCode
       THEN [b EXCEPT !.pc = "done", !.result = "CodeAlreadyExists"]
     ELSE IF b.attempts >= MaxAttempts
       THEN [b EXCEPT !.attempts = 0, !.cand = next]
     ELSE [b EXCEPT !.cand = next]

\* the retry loop with its exit test one too late: > where >= is meant
InterpretOffByOne(a, answer, row, next) ==
  LET b == [a EXCEPT !.attempts = a.attempts + 1]
  IN IF answer = "ok"
       THEN [b EXCEPT !.pc = "done", !.result = "Success", !.link = {row}]
     ELSE IF answer # "23505"
       THEN [b EXCEPT !.pc = "done", !.result = "StoreUnavailable"]
     ELSE IF a.customCode # NoCode
       THEN [b EXCEPT !.pc = "done", !.result = "CodeAlreadyExists"]
     ELSE IF b.attempts > MaxAttempts
       THEN [b EXCEPT !.pc = "done", !.result = "AllocationExhausted"]
     ELSE [b EXCEPT !.cand = next]

\* the retry loop entered on any failed insert of a generated code
InterpretRetryAny(a, answer, row, next) ==
  LET b == [a EXCEPT !.attempts = a.attempts + 1]
  IN IF answer = "ok"
       THEN [b EXCEPT !.pc = "done", !.result = "Success", !.link = {row}]
     ELSE IF a.customCode # NoCode
       THEN [b EXCEPT !.pc = "done",
                      !.result = IF answer = "23505" THEN "CodeAlreadyExists" ELSE "StoreUnavailable"]
     ELSE IF b.attempts >= MaxAttempts
       THEN [b EXCEPT !.pc = "done", !.result = "AllocationExhausted"]
     ELSE [b EXCEPT !.cand = a.cand]

\* a collision of a generated code reported like one of a custom code
InterpretNoRetry(a, answer, row, next) ==
  LET b == [a EXCEPT !.attempts = a.attempts + 1]
  IN IF answer = "ok"
       THEN [b EXCEPT !.pc = "done", !.result = "Success", !.link = {row}]
     ELSE IF answer # "23505"
       THEN [b EXCEPT !.pc = "done", !.result = "StoreUnavailable"]
     ELSE [b EXCEPT !.pc = "done", !.result = "CodeAlreadyExists"]

\* How the allocator reads the answer to one insert attempt; next is the
\* candidate generateShortCode() returns if there is a retry.
Interpret(a, answer, row, next) ==
  LET b == [a EXCEPT !.attempts = a.attempts + 1]
  IN IF answer = "ok"
       THEN [b EXCEPT !.pc = "done", !.result = "Success", !.link = {row}]
     ELSE IF answer # "23505"
       THEN [b EXCEPT !.pc = "done", !.result = "StoreUnavailable"]
     ELSE IF a.customCode # NoCode
       THEN [b EXCEPT !.pc = "done", !.result = "CodeAlreadyExists"]
     ELSE IF b.attempts >= MaxAttempts
       THEN [b EXCEPT !.pc = "done", !.result = "AllocationExhausted"]
     ELSE [b EXCEPT !.cand = next]

\* One insert attempt: the store executes the statement and the allocator
\* handles the answer.
Insert(p) ==
  /\ alloc[p].pc = "insert"
  /\ LET row == NewLink(alloc[p], nextId)
     IN /\ store' = InsertRow(store, row)
        /\ nextId' = IF InsertAnswer(store, row) = "ok" THEN nextId + 1 ELSE nextId
        /\ \E next \in GenPool :
             alloc' = [alloc EXCEPT
                         ![p] = Interpret(alloc[p], InsertAnswer(store, row), row, next)]
  /\ UNCHANGED <<calls, column, navVars, probe>>

\* One insert attempt that the store does not serve (connection lost, timeout, ...)
InsertFails(p) ==
  /\ alloc[p].pc = "insert"
  /\ alloc' = [alloc EXCEPT ![p] = Interpret(alloc[p], "08006", NewLink(alloc[p], nextId), NoCode)]
  /\ UNCHANGED <<store, nextId, calls, column, navVars, probe>>

\* the caller has the result; the slot is free for the next request
Return(p) ==
  /\ alloc[p].pc \in {"done", "cancelled"}
  /\ alloc' = [alloc EXCEPT ![p] = Idle]
  /\ UNCHANGED <<store, nextId, calls, column, navVars, probe>>

\* deleteLink(id), called from the session of user u
DeleteLink(u, id) ==
  /\ \E r \in store : r.id = id
  /\ store' = DeleteWhereId(store, id)
  /\ alloc' = [p \in Procs |->
                 IF alloc[p].pc # "idle"
                    /\ \E r \in store : r.id = id /\ r.shortCode \in {alloc[p].cand, alloc[p].customCode}
                 THEN [alloc[p] EXCEPT !.clean = FALSE] ELSE alloc[p]]
  /\ UNCHANGED <<nextId, calls, column, navVars, probe>>

Next ==
  \/ \E p \in Procs : CreateLink(p)
  \/ \E p \in Procs : Insert(p)
  \/ \E p \in Procs : InsertFails(p)
  \/ \E p \in Procs : Return(p)
  \/ \E u \in Users, id \in 1..MaxCalls : DeleteLink(u, id)

Spec == Init /\ [][Next]_vars

\* the table as the migration creates it or as schema.ts declares it
MigratedInit ==
  /\ store = {}
  /\ nextId = 1
  /\ calls = 0
  /\ alloc = [p \in Procs |-> Idle]
  /\ column \in ColumnTypes
  /\ middleware = FALSE
  /\ nav = [p \in Procs |-> NavIdle]
  /\ probe = <<>>

MigratedSpec == MigratedInit /\ [][Next]_vars

\* The caller abandons the request while it waits for the store.  The
\* statement in flight is atomic: either it never reached the store, or the
\* store executed it and nobody reads the answer.  No further attempt follows.
Cancel(p) ==
  /\ alloc[p].pc = "insert"
  /\ LET row == NewLink(alloc[p], nextId)
     IN \E executed \in BOOLEAN :
          /\ store' = IF executed THEN InsertRow(store, row) ELSE store
          /\ nextId' = IF executed /\ InsertAnswer(store, row) = "ok" THEN nextId + 1 ELSE nextId
          /\ alloc' = [alloc EXCEPT ![p] = [@ EXCEPT !.pc = "cancelled"]]
  /\ UNCHANGED <<calls, column, navVars, probe>>

CancelNext ==
  \/ Next
  \/ \E p \in Procs : Cancel(p)

CancelSpec == Init /\ [][CancelNext]_vars

(* ------------------------------------------------------------------ *)
(* Page requests                                                       *)
(* ------------------------------------------------------------------ *)
\* the user enters a path in the address bar or follows a link
Visit(p, path) ==
  /\ nav[p].pc \in {"idle", "page"}
  /\ nav' = [nav EXCEPT ![p] = [@ EXCEPT !.pc = "request", !.path = path, !.asked = path,
                                          !.hops = 0, !.page = "none"]]
  /\ UNCHANGED <<allocVars, column, middleware, probe>>

\* the server answers the request in flight; the browser shows the page or
\* follows the redirect
Handle(p) ==
  /\ nav[p].pc = "request"
  /\ LET r == Respond(middleware, nav[p].path, nav[p].userId)
     IN nav' = [nav EXCEPT ![p] =
                  IF r.kind = "render" THEN [@ EXCEPT !.pc = "page", !.page = r.page]
                  ELSE IF nav[p].hops >= MaxRedirects
                       THEN [@ EXCEPT !.pc = "page", !.page = "too-many-redirects"]
                  ELSE [@ EXCEPT !.path = r.to, !.hops = @ + 1]]
  /\ UNCHANGED <<allocVars, column, middleware, probe>>

\* the user signs in or up in the modal; Clerk then opens AfterSignInUrl
SignIn(p) ==
  /\ nav[p].pc = "page"
  /\ nav[p].userId = NoUser
  /\ nav' = [nav EXCEPT ![p] = [NavIdle EXCEPT !.userId = p, !.pc = "request",
                                               !.path = AfterSignInUrl, !.asked = AfterSignInUrl]]
  /\ UNCHANGED <<allocVars, column, middleware, probe>>

\* the user signs out with the UserButton; Clerk then opens AfterSignOutUrl
SignOut(p) ==
  /\ nav[p].pc = "page"
  /\ nav[p].userId # NoUser
  /\ nav' = [nav EXCEPT ![p] = [NavIdle EXCEPT !.pc = "request",
                                               !.path = AfterSignOutUrl, !.asked = AfterSignOutUrl]]
  /\ UNCHANGED <<allocVars, column, middleware, probe>>

\* the application deployed with or without middleware.ts
NavInit ==
  /\ store = {}
  /\ nextId = 1
  /\ calls = 0
  /\ alloc = [p \in Procs |-> Idle]
  /\ column = "varchar"
  /\ middleware \in BOOLEAN
  /\ nav = [p \in Procs |-> NavIdle]
  /\ probe = <<>>

NavNext ==
  \/ \E p \in Procs, path \in Paths : Visit(p, path)
  \/ \E p \in Procs : Handle(p)
  \/ \E p \in Procs : SignIn(p)
  \/ \E p \in Procs : SignOut(p)

NavSpec == NavInit /\ [][NavNext]_vars

(* ------------------------------------------------------------------ *)
(* Calls of the utility functions                                      *)
(* ------------------------------------------------------------------ *)
\* isValidUrl(url) is called
CallIsValidUrl(url) ==
  /\ Len(probe) < MaxProbes
  /\ probe' = Append(probe, [fn |-> "isValidUrl", arg |-> url, out |-> isValidUrl(url)])
  /\ UNCHANGED <<allocVars, column, navVars>>

\* generateShortCode(length) is called
CallGenerateShortCode(length) ==
  /\ Len(probe) < MaxProbes
  /\ \E d \in GenDraws :
       probe' = Append(probe, [fn |-> "generateShortCode", arg |-> length,
                               out |-> generateShortCode(length, d)])
  /\ UNCHANGED <<allocVars, column, navVars>>

UtilNext ==
  \/ \E url \in ProbeUrls : CallIsValidUrl(url)
  \/ \E length \in GenLengths : CallGenerateShortCode(length)

UtilSpec == Init /\ [][UtilNext]_vars

(* ------------------------------------------------------------------ *)
(* Properties                                                          *)
(* ------------------------------------------------------------------ *)
\* the allocator was invoked for the request in slot p
Allocating(p) == alloc[p].pc # "idle" /\ alloc[p].result # "Unauthorized"

\* C1: in every reachable state no two distinct persisted Links have the
\* same shortCode, whatever allocations and deletes have run and however
\* they interleaved.
C1_ShortCodeUnique ==
  \A l1 \in store, l2 \in store : l1 # l2 => l1.shortCode # l2.shortCode

\* two rows are persisted and one of them got its code only after a collision
C1_Witness ==
  /\ Cardinality(store) = 2
  /\ \E p \in Procs : alloc[p].result = "Success" /\ alloc[p].attempts > 1

\* Slots p and q hold two finished allocations that raced for one custom
\* code: same valid code, different valid URLs, the code free when each
\* began, no row with the code deleted meanwhile, the store served both.
CustomRace(p, q) ==
  /\ p # q
  /\ alloc[p].pc = "done" /\ alloc[q].pc = "done"
  /\ Allocating(p) /\ Allocating(q)
  /\ alloc[p].customCode # NoCode
  /\ alloc[p].customCode = alloc[q].customCode
  /\ alloc[p].url # alloc[q].url
  /\ Validate(alloc[p].url, alloc[p].customCode) = "ok"
  /\ Validate(alloc[q].url, alloc[q].customCode) = "ok"
  /\ alloc[p].freeAtStart /\ alloc[q].freeAtStart
  /\ alloc[p].clean /\ alloc[q].clean
  /\ alloc[p].result # "StoreUnavailable" /\ alloc[q].result # "StoreUnavailable"

\* C2: two concurrent allocations with the same valid custom code and
\* different URLs, the code not yet in the store: exactly one returns
\* Success, the other CodeAlreadyExists, and exactly one row has the code.
C2_ConcurrentCustomRace ==
  \A p \in Procs, q \in Procs :
    CustomRace(p, q) =>
      /\ {alloc[p].result, alloc[q].result} = {"Success", "CodeAlreadyExists"}
      /\ Cardinality(FindByShortCode(store, alloc[p].customCode)) = 1

C2_Witness == \E p \in Procs, q \in Procs : CustomRace(p, q)

\* the request in slot p has just been answered after an insert attempt
\* that the store served
Answered(p) ==
  /\ alloc[p].pc = "insert"
  /\ alloc'[p].pc = "done"
  /\ alloc'[p].result # "StoreUnavailable"

\* the step persisted exactly one new row, with the request's url and
\* userId and with shortCode code, and returned it
PersistedAs(p, code) ==
  \E l \in store' :
    /\ store' = store \cup {l} /\ l \notin store
    /\ l.shortCode = code /\ l.url = alloc[p].url /\ l.userId = alloc[p].userId
    /\ alloc'[p].link = {l}

\* C3: an allocation with a valid url and a valid custom code that no
\* persisted Link holds returns Success, and the persisted Link's shortCode
\* is exactly the supplied custom code.
C3_CustomCodeKept ==
  [][\A p \in Procs :
       (Answered(p) /\ alloc[p].customCode # NoCode
          /\ alloc[p].customCode \notin ShortCodes(store))
       => (alloc'[p].result = "Success" /\ PersistedAs(p, alloc[p].customCode))]_vars

\* a custom-code allocation succeeded while the other session's auto
\* allocation was in flight
C3_Witness ==
  \E p \in Procs, q \in Procs :
    /\ alloc[p].pc = "done" /\ alloc[p].result = "Success"
    /\ alloc[p].customCode = MyLink
    /\ alloc[p].link \subseteq store /\ alloc[p].link # {}
    /\ alloc[q].pc = "insert" /\ alloc[q].customCode = NoCode

\* C4: an allocation whose custom code a persisted Link already holds
\* returns CodeAlreadyExists after a single insert attempt, whether or not
\* its url and userId equal the existing Link's; no row is created, the
\* existing row is unchanged, and no Link with another code is persisted.
C4_CustomConflictTerminal ==
  [][\A p \in Procs :
       (Answered(p) /\ alloc[p].customCode # NoCode
          /\ alloc[p].customCode \in ShortCodes(store))
       => (/\ alloc'[p].result = "CodeAlreadyExists"
           /\ alloc'[p].attempts = 1
           /\ alloc'[p].link = {}
           /\ store' = store)]_vars

\* CodeAlreadyExists was returned to a request whose url and userId both
\* differ from those of the Link that holds the code
C4_Witness ==
  \E p \in Procs :
    /\ alloc[p].pc = "done" /\ alloc[p].result = "CodeAlreadyExists"
    /\ \E l \in store : /\ l.shortCode = alloc[p].customCode
                        /\ l.url # alloc[p].url /\ l.userId # alloc[p].userId

\* C5: an allocation whose url fails the validity predicate returns
\* InvalidURL and persists no row: no insert attempt is issued, whatever
\* the store holds and whether or not a custom code is supplied.
C5_InvalidUrlRejected ==
  /\ \A p \in Procs :
       (Allocating(p) /\ ~isValidUrl(alloc[p].url)) =>
         /\ alloc[p].pc = "done"
         /\ alloc[p].result = "InvalidURL"
         /\ alloc[p].attempts = 0
         /\ alloc[p].link = {}
  /\ \A l \in store : isValidUrl(l.url)

\* InvalidURL was returned for a request carrying a custom code while the
\* store already held a row
C5_Witness ==
  \E p \in Procs :
    /\ alloc[p].result = "InvalidURL"
    /\ alloc[p].customCode # NoCode
    /\ store # {}

\* the code has a character outside letters, digits and hyphen
OffClass(code) == \E i \in 1..Len(code) : code[i] \notin Letters \cup Digits \cup {"-"}

\* C6: an allocation with a valid url and a supplied custom code that has a
\* character outside letters, digits and hyphen, or is longer than the
\* length bound, returns InvalidCustomCode and persists no row.
C6_InvalidCustomCodeRejected ==
  /\ \A p \in Procs :
       (/\ Allocating(p) /\ isValidUrl(alloc[p].url)
        /\ alloc[p].customCode # NoCode
        /\ (OffClass(alloc[p].customCode) \/ Len(alloc[p].customCode) > ShortCodeMaxLen)) =>
         /\ alloc[p].pc = "done"
         /\ alloc[p].result = "InvalidCustomCode"
         /\ alloc[p].attempts = 0
         /\ alloc[p].link = {}
  /\ \A l \in store : ~OffClass(l.shortCode) /\ Len(l.shortCode) <= ShortCodeMaxLen

\* both ways of being invalid were rejected: one session's code has an
\* underscore, the other's is 21 characters long
C6_Witness ==
  \E p \in Procs, q \in Procs :
    /\ alloc[p].result = "InvalidCustomCode" /\ alloc[p].customCode = BadCharCode
    /\ alloc[q].result = "InvalidCustomCode" /\ alloc[q].customCode = TooLongCode

\* the auto-generated allocation in slot p took part in the step: one more
\* insert attempt of its was served by the store
AutoAttempt(p) ==
  /\ alloc[p].pc = "insert"
  /\ alloc[p].customCode = NoCode
  /\ alloc'[p].attempts = alloc[p].attempts + 1
  /\ alloc'[p].result # "StoreUnavailable"

\* C7: in an allocation without custom code, while fewer collisions than
\* the retry bound have happened a colliding candidate leads to another
\* attempt with a new candidate, and the first candidate that does not
\* collide is persisted: after N < MaxAttempts collisions the allocation
\* returns Success with the (N+1)th candidate as shortCode.
C7_RetryThenSuccess ==
  /\ [](\A p \in Procs : alloc[p].pc = "insert" => alloc[p].attempts < MaxAttempts)
  /\ [][\A p \in Procs :
          /\ (AutoAttempt(p) /\ alloc[p].cand \in ShortCodes(store)
                /\ alloc[p].attempts + 1 < MaxAttempts)
             => (alloc'[p].pc = "insert" /\ alloc'[p].cand \in GenPool /\ store' = store)
          /\ (AutoAttempt(p) /\ alloc[p].cand \notin ShortCodes(store))
             => (/\ alloc'[p].pc = "done" /\ alloc'[p].result = "Success"
                 /\ PersistedAs(p, alloc[p].cand))]_vars

\* four candidates collided and the fifth was persisted
C7_Witness ==
  \E p \in Procs :
    /\ alloc[p].result = "Success" /\ alloc[p].customCode = NoCode
    /\ alloc[p].attempts = MaxAttempts
    /\ alloc[p].link \subseteq store

\* C8: an allocation without custom code whose candidates collide
\* MaxAttempts times in a row returns AllocationExhausted and persists no
\* row, even when another candidate would have been free; it is the only
\* way AllocationExhausted is returned.
C8_Exhausted ==
  /\ [](\A p \in Procs :
          alloc[p].result = "AllocationExhausted" =>
            /\ alloc[p].customCode = NoCode
            /\ alloc[p].attempts = MaxAttempts
            /\ alloc[p].link = {})
  /\ [][\A p \in Procs :
          (AutoAttempt(p) /\ alloc[p].cand \in ShortCodes(store)
             /\ alloc[p].attempts + 1 >= MaxAttempts)
          => (/\ alloc'[p].pc = "done"
              /\ alloc'[p].result = "AllocationExhausted"
              /\ alloc'[p].link = {}
              /\ store' = store)]_vars

\* the budget ran out although the generator had a free code left
C8_Witness ==
  \E p \in Procs :
    /\ alloc[p].result = "AllocationExhausted"
    /\ GenPool \ ShortCodes(store) # {}

\* C9: right after a successful allocation, the lookup by the returned
\* shortCode finds a row, and its url, userId and shortCode are the url and
\* userId passed to the allocation and the shortCode it returned.
C9_ReadBack ==
  [][\A p \in Procs :
       (alloc[p].pc = "insert" /\ alloc'[p].result = "Success") =>
         \E l \in alloc'[p].link :
           /\ l.shortCode = alloc[p].cand
           /\ FindByShortCode(store', l.shortCode) # {}
           /\ \A r \in FindByShortCode(store', l.shortCode) :
                /\ r.url = alloc[p].url
                /\ r.userId = alloc[p].userId
                /\ r.shortCode = l.shortCode]_vars

\* a successful allocation whose row is found among two persisted rows
C9_Witness ==
  \E p \in Procs :
    /\ alloc[p].result = "Success"
    /\ Cardinality(store) = 2
    /\ \E l \in alloc[p].link : FindByShortCode(store, l.shortCode) = {l}

\* every store call returns: an allocation waiting for the store gets its answer
FairSpec == Spec /\ \A p \in Procs : WF_vars(Insert(p) \/ InsertFails(p))

\* C10: every allocation terminates, with exactly one outcome: a persisted
\* Link (Success) or one of the five classified errors; a Link is returned
\* exactly when the outcome is Success.
C10_Total ==
  /\ [](\A p \in Procs :
          (Allocating(p) /\ alloc[p].pc = "done") =>
            /\ alloc[p].result \in ErrorKinds \cup {"Success"}
            /\ alloc[p].result = "Success" <=> alloc[p].link # {})
  /\ \A p \in Procs : (alloc[p].pc = "insert") ~> (alloc[p].pc = "done")

\* one allocation has ended with its row persisted, the other after using
\* up its retry budget
C10_Witness ==
  \E p \in Procs, q \in Procs :
    /\ alloc[p].pc = "done" /\ alloc[p].result = "AllocationExhausted"
    /\ alloc[q].pc = "done" /\ alloc[q].result = "Success"

\* the request in slot p got its result in the step
Returns(p) == alloc[p].pc # "done" /\ alloc'[p].pc = "done"

\* C11: an allocation adds exactly one row to the store if and only if it
\* returns Success, and the shortCode it returns is that row's; an
\* allocation that returns an error leaves the persisted Links as they
\* were before the call.
C11_OneRowIffSuccess ==
  [][/\ \A p \in Procs :
          /\ (Returns(p) /\ alloc'[p].result = "Success") =>
                \E l \in alloc'[p].link :
                  /\ alloc'[p].link = {l}
                  /\ l.shortCode = alloc[p].cand
                  /\ l \notin store
                  /\ store' = store \cup {l}
          /\ (Returns(p) /\ alloc'[p].result # "Success") =>
                (alloc'[p].link = {} /\ store' = store)
          /\ (alloc[p].pc = "insert" /\ alloc'[p].pc = "insert"
                /\ alloc'[p].attempts # alloc[p].attempts) => store' = store
     /\ store' \ store # {} =>
          \E p \in Procs : Returns(p) /\ alloc'[p].result = "Success"]_vars

\* one allocation returned its row, the other an error, and the store holds
\* the one row
C11_Witness ==
  \E p \in Procs, q \in Procs :
    /\ alloc[p].pc = "done" /\ alloc[p].result = "Success"
    /\ alloc[q].pc = "done" /\ alloc[q].result \in ErrorKinds
    /\ store = alloc[p].link

\* C12: a create-link request without an authenticated user is rejected
\* before the allocator is invoked: it never waits for an insert, no insert
\* attempt is counted for it, and no row without an owner is persisted.
C12_UnauthorizedRejected ==
  /\ \A p \in Procs :
       /\ alloc[p].pc = "insert" => alloc[p].userId # NoUser
       /\ (alloc[p].pc # "idle" /\ alloc[p].userId = NoUser) =>
            /\ alloc[p].pc = "done"
            /\ alloc[p].result = "Unauthorized"
            /\ alloc[p].attempts = 0
            /\ alloc[p].link = {}
  /\ \A l \in store : l.userId # NoUser

\* a signed-out session was turned away while the other session's allocation
\* was waiting for the store
C12_Witness ==
  \E p \in Procs, q \in Procs :
    /\ alloc[p].pc = "done" /\ alloc[p].result = "Unauthorized"
    /\ alloc[q].pc = "insert"

(* ------------------------------------------------------------------ *)
(* Properties of pages, listings and utility functions                 *)
(* ------------------------------------------------------------------ *)
\* the session asked for a dashboard path
AskedDashboard(p) == Len(nav[p].asked) >= 1 /\ nav[p].asked[1] = "dashboard"

\* C13: a request to / by a signed-in user is redirected to /dashboard and
\* the homepage content is never rendered for a signed-in user; a request
\* to / by a signed-out user renders the homepage without a redirect.
C13_HomepageRedirect ==
  \A p \in Procs :
    /\ (nav[p].pc = "page" /\ nav[p].page = "home") => nav[p].userId = NoUser
    /\ (nav[p].asked = HomePath /\ nav[p].userId # NoUser /\ nav[p].hops > 0) =>
          (nav[p].hops = 1 /\ nav[p].path = DashboardPath)
    /\ (nav[p].asked = HomePath /\ nav[p].userId # NoUser /\ nav[p].pc = "page") =>
          (nav[p].hops = 1 /\ nav[p].page = "dashboard")
    /\ (nav[p].asked = HomePath /\ nav[p].userId = NoUser /\ nav[p].pc # "idle") =>
          (nav[p].hops = 0 /\ nav[p].path = HomePath /\ nav[p].page \in {"none", "home"})

\* one session asked for / signed in and was sent on to the dashboard, the
\* other asked for / signed out and sees the homepage
C13_Witness ==
  \E p \in Procs, q \in Procs :
    /\ nav[p].pc = "page" /\ nav[p].asked = HomePath /\ nav[p].userId # NoUser
    /\ nav[p].page = "dashboard" /\ nav[p].hops = 1
    /\ nav[q].pc = "page" /\ nav[q].asked = HomePath /\ nav[q].userId = NoUser
    /\ nav[q].page = "home"

\* C14: a signed-out request to /dashboard or a dashboard subroute is
\* redirected to the homepage /, and no redirect of the server targets
\* /sign-in or /sign-up.
C14_DashboardRedirect ==
  \A p \in Procs :
    /\ (AskedDashboard(p) /\ nav[p].userId = NoUser /\ nav[p].hops > 0) =>
          nav[p].path = HomePath
    /\ (AskedDashboard(p) /\ nav[p].userId = NoUser /\ nav[p].pc = "page") =>
          (nav[p].hops = 1 /\ nav[p].page = "home")
    /\ nav[p].hops > 0 => nav[p].path \notin {SignInPath, SignUpPath}

\* with middleware.ts deployed, a signed-out request for the dashboard ended
\* on the sign-in page after one redirect
C14_Witness ==
  \E p \in Procs :
    /\ middleware
    /\ nav[p].asked = DashboardPath /\ nav[p].userId = NoUser
    /\ nav[p].pc = "page" /\ nav[p].page = "sign-in" /\ nav[p].hops = 1

Listed(listing) == {listing[i] : i \in 1..Len(listing)}

\* C16: the listing of user u holds exactly the persisted Links owned by
\* u, never a Link of another user, and no allocation and no deletion
\* performed by another user changes it.
C16_OwnerScopedListing ==
  [][\A u \in Users :
       /\ Listed(UserLinks(store', u)) = {l \in store' : l.userId = u}
       /\ \A l \in Listed(UserLinks(store', u)) : l.userId = u
       /\ \A p \in Procs :
            (alloc'[p].attempts # alloc[p].attempts /\ alloc[p].userId # u) =>
              UserLinks(store', u) = UserLinks(store, u)
       /\ \A v \in Users \ {u}, id \in 1..MaxCalls :
            DeleteLink(v, id) => UserLinks(store', u) = UserLinks(store, u)]_vars

\* the calls of one utility function made so far
CallsOf(fn) == {i \in 1..Len(probe) : probe[i].fn = fn}

\* C17: isValidUrl is true for absolute http and https URLs, false for a
\* string without scheme, for the empty string and for a URL with another
\* scheme such as ftp://example.com, and the same string always gets the
\* same result.
C17_IsValidUrl ==
  /\ \A i \in CallsOf("isValidUrl") :
       LET url == probe[i].arg
       IN /\ (url.scheme \in {"http", "https"} /\ url.rest \notin {"", "/", "//"}) => probe[i].out
          /\ url.scheme = "" => ~probe[i].out
          /\ url = EmptyUrl => ~probe[i].out
          /\ (url.scheme # "" /\ url.scheme \notin {"http", "https"}) => ~probe[i].out
  /\ \A i \in CallsOf("isValidUrl"), j \in CallsOf("isValidUrl") :
       probe[i].arg = probe[j].arg => probe[i].out = probe[j].out

\* isValidUrl('ftp://example.com') returned true
C17_Witness ==
  \E i \in CallsOf("isValidUrl") : probe[i].arg = FtpExample /\ probe[i].out

C20_AttemptsBounded ==
  \A p \in Procs :
    alloc[p].customCode = NoCode =>
      alloc[p].attempts + (IF alloc[p].pc = "insert" THEN 1 ELSE 0) <= MaxAttempts

\* the MaxAttempts-th attempt of an allocation is in flight
C20_Witness ==
  \E p \in Procs :
    /\ alloc[p].pc = "insert" /\ alloc[p].customCode = NoCode
    /\ alloc[p].attempts + 1 = MaxAttempts

\* C21: within one allocation no insert attempt is issued before both
\* validations have passed: a request that waits for the store or has had
\* an attempt answered has a valid url and no invalid custom code, and one
\* that ended in InvalidURL or InvalidCustomCode has issued no attempt.
C21_ValidateBeforeInsert ==
  \A p \in Procs :
    /\ (alloc[p].pc = "insert" \/ alloc[p].attempts > 0) =>
         /\ alloc[p].url # EmptyUrl /\ isValidUrl(alloc[p].url)
         /\ alloc[p].customCode # NoCode => isValidCustomCode(alloc[p].customCode)
    /\ alloc[p].result \in {"InvalidURL", "InvalidCustomCode"} =>
         (alloc[p].pc = "done" /\ alloc[p].attempts = 0 /\ alloc[p].link = {})

\* one request was rejected by validation without an attempt while the
\* other, validated, had its insert answered
C21_Witness ==
  \E p \in Procs, q \in Procs :
    /\ alloc[p].result = "InvalidCustomCode" /\ alloc[p].attempts = 0
    /\ alloc[q].result = "Success" /\ alloc[q].attempts = 1

\* C22: an insert attempt that fails with a store error other than the
\* uniqueness violation ends the allocation at once with StoreUnavailable,
\* with or without custom code and whatever budget remains; another attempt
\* follows only a uniqueness violation of a generated code.
C22_StoreErrorImmediate ==
  [][\A p \in Procs :
       /\ InsertFails(p) =>
            /\ alloc'[p].pc = "done"
            /\ alloc'[p].result = "StoreUnavailable"
            /\ alloc'[p].link = {}
            /\ store' = store
       /\ (alloc[p].pc = "insert" /\ alloc'[p].pc = "insert"
             /\ alloc'[p].attempts # alloc[p].attempts) =>
            /\ alloc[p].customCode = NoCode
            /\ InsertAnswer(store, NewLink(alloc[p], nextId)) = "23505"]_vars

\* a generated-code allocation ended with StoreUnavailable on its second
\* attempt, with budget left
C22_Witness ==
  \E p \in Procs :
    /\ alloc[p].result = "StoreUnavailable" /\ alloc[p].customCode = NoCode
    /\ alloc[p].attempts = 2

\* Slots p and q hold two allocations without custom code that wait for
\* the store with the same candidate, which no row holds.
AutoRace(p, q) ==
  /\ p # q
  /\ alloc[p].pc = "insert" /\ alloc[q].pc = "insert"
  /\ alloc[p].customCode = NoCode /\ alloc[q].customCode = NoCode
  /\ alloc[p].cand = alloc[q].cand
  /\ alloc[p].cand \notin ShortCodes(store)

FullLinkOf(p, l) ==
  /\ l.id >= 1 /\ l.createdAt >= 1 /\ l.updatedAt >= 1
  /\ l.userId = alloc[p].userId /\ l.userId # NoUser
  /\ l.url = alloc[p].url /\ isValidUrl(l.url)
  /\ l.shortCode = alloc[p].cand /\ l.shortCode # NoCode

C25_LinkImmutable ==
  /\ [][/\ \A l \in store, k \in store' :
             k.id = l.id =>
               /\ k.userId = l.userId /\ k.url = l.url
               /\ k.shortCode = l.shortCode /\ k.createdAt = l.createdAt
        /\ \A l \in store \ store' :
             \E u \in Users : DeleteLink(u, l.id) /\ store \ store' = {l}
        /\ \A k \in store' \ store : k.id >= nextId /\ k.id < nextId']_vars
  /\ [](\A l \in store : l.id < nextId /\ l.userId \in Users)

\* a Link of one user is still in the store, unchanged, after the other
\* user's allocation collided with its code, retried and added a row
C25_Witness ==
  \E p \in Procs, q \in Procs :
    /\ alloc[p].result = "Success" /\ alloc[p].link \subseteq store
    /\ alloc[q].result = "Success" /\ alloc[q].attempts > 1
    /\ alloc[q].link \subseteq store /\ alloc[p].link # alloc[q].link
    /\ alloc[p].userId # alloc[q].userId

\* what a row says about its allocation
Triple(l) == <<l.url, l.userId, l.shortCode>>
\* the row the request in slot p asks for
TripleOf(p) == <<alloc[p].url, alloc[p].userId, alloc[p].cand>>

\* Slots p and q hold two allocations that wait for the store with
\* different candidates, both free.
NonContending(p, q) ==
  /\ p # q
  /\ alloc[p].pc = "insert" /\ alloc[q].pc = "insert"
  /\ alloc[p].cand # alloc[q].cand
  /\ alloc[p].cand \notin ShortCodes(store)
  /\ alloc[q].cand \notin ShortCodes(store)

\* C26: two allocations that do not contend for a shortCode commute: the
\* one served first succeeds and adds its (url, userId, shortCode) without
\* touching the other, whose candidate stays free, so both succeed in either
\* order and the rows are the same.
C26_Commute ==
  /\ [][\A p \in Procs, q \in Procs :
          (/\ NonContending(p, q)
           /\ alloc'[p].attempts # alloc[p].attempts
           /\ alloc'[p].result # "StoreUnavailable") =>
            /\ alloc'[p].result = "Success"
            /\ {Triple(l) : l \in store'} = {Triple(l) : l \in store} \cup {TripleOf(p)}
            /\ alloc'[q] = alloc[q]
            /\ alloc[q].cand \notin ShortCodes(store')]_vars
  /\ [](\A p \in Procs, q \in Procs :
          (/\ p # q
           /\ alloc[p].result = "Success" /\ alloc[q].result = "Success"
           /\ alloc[p].clean /\ alloc[q].clean) =>
            {TripleOf(p), TripleOf(q)} \subseteq {Triple(l) : l \in store})

\* two requests with distinct custom codes both succeeded, the one of
\* user_2 served first
C26_Witness ==
  \E p \in Procs, q \in Procs :
    /\ alloc[p].result = "Success" /\ alloc[p].customCode = MyLink
    /\ alloc[q].result = "Success" /\ alloc[q].customCode = GenCode("1")
    /\ {Triple(l) : l \in store} = {TripleOf(p), TripleOf(q)}
    /\ \E l \in store : l.userId = "user_2" /\ l.id = 1

\* C27: a Link can be deleted only by its owner: deleteLink called by u for
\* a Link of another user leaves the store unchanged, and called by the
\* owner it removes exactly that row.
C27_OwnerOnlyDelete ==
  [][\A u \in Users, id \in 1..MaxCalls :
       DeleteLink(u, id) =>
         \A l \in store :
           l.id = id =>
             IF l.userId = u THEN store' = store \ {l} ELSE store' = store]_vars

\* the store served an insert attempt of the request in slot p in the step
Served(p) ==
  /\ alloc[p].pc = "insert"
  /\ alloc'[p].attempts = alloc[p].attempts + 1
  /\ alloc'[p].result # "StoreUnavailable"

\* Slot p holds an allocation without custom code, slot q one with a custom
\* code; both wait for the store with the same code, which no row holds.
MixedRace(p, q) ==
  /\ p # q
  /\ alloc[p].pc = "insert" /\ alloc[q].pc = "insert"
  /\ alloc[p].customCode = NoCode /\ alloc[q].customCode # NoCode
  /\ alloc[p].cand = alloc[q].customCode
  /\ alloc[p].cand \notin ShortCodes(store)

C29_InvalidUrlFirst ==
  \A p \in Procs :
    (/\ Allocating(p)
     /\ ~isValidUrl(alloc[p].url)
     /\ alloc[p].customCode # NoCode
     /\ (OffClass(alloc[p].customCode) \/ Len(alloc[p].customCode) > ShortCodeMaxLen)) =>
      (alloc[p].pc = "done" /\ alloc[p].result = "InvalidURL")

\* both kinds of invalid custom code came with an invalid url and both
\* requests got InvalidURL
C29_Witness ==
  \E p \in Procs, q \in Procs :
    /\ alloc[p].url = NotAUrl /\ alloc[p].customCode = BadCharCode
    /\ alloc[p].result = "InvalidURL"
    /\ alloc[q].url = NotAUrl /\ alloc[q].customCode = TooLongCode
    /\ alloc[q].result = "InvalidURL"

\* C30: with the authentication state fixed, following the redirects from /
\* or from /dashboard takes at most one redirect and ends on a rendered
\* page: /dashboard when signed in, / when signed out.
C30_RedirectsEnd ==
  \A p \in Procs :
    nav[p].asked \in {HomePath, DashboardPath} =>
      /\ nav[p].hops <= 1
      /\ nav[p].page # "too-many-redirects"
      /\ nav[p].pc = "page" =>
           IF nav[p].userId # NoUser
           THEN nav[p].path = DashboardPath /\ nav[p].page = "dashboard"
           ELSE nav[p].path = HomePath /\ nav[p].page = "home"

\* signed out, the navigation from /dashboard ended on /sign-in
C30_Witness ==
  \E p \in Procs :
    /\ nav[p].userId = NoUser /\ nav[p].asked = DashboardPath
    /\ nav[p].pc = "page" /\ nav[p].path = SignInPath

====
